---- MODULE Spec2Model ----
(***************************************************************************)
(* Students API: six HTTP handlers (create, get by id, get all, update,    *)
(* delete by id, delete all) over one SQLite table                         *)
(*   students(id INTEGER PRIMARY KEY AUTOINCREMENT, name, email, age).     *)
(* One action per handler; a request is handled from decode to the last    *)
(* response write in one step.                                             *)
(***************************************************************************)
EXTENDS Integers, Sequences, FiniteSets, TLC

VARIABLES students, seq, dbOk, running, req, resp, calls, inflight

vars == <<students, seq, dbOk, running, req, resp, calls, inflight>>

(***************************************************************************)
(* Bounds and input domains                                                *)
(***************************************************************************)
\* number of INSERTs a behaviour may perform (caps the AUTOINCREMENT counter)
MaxCreates == 3

\* path values of {id}: a non-empty URL segment, as a sequence of characters
PathIds == { <<"1">>, <<"0", "2">>, <<"3">>, <<"-", "1">>, <<"x">> }

(***************************************************************************)
(* Go values: errors, types.Student                                        *)
(***************************************************************************)
Nil == [isNil |-> TRUE, kind |-> "", text |-> ""]

Err(kind, text) == [isNil |-> FALSE, kind |-> kind, text |-> text]

\* the zero value of types.Student
ZeroStudent == [Id |-> 0, Email |-> "", Name |-> "", Age |-> 0]

Student(id, name, email, age) == [Id |-> id, Email |-> email, Name |-> name, Age |-> age]

RECURSIVE Join(_, _)
\* strings.Join
Join(elems, sep) ==
  IF elems = <<>> THEN ""
  ELSE IF Len(elems) = 1 THEN elems[1]
  ELSE elems[1] \o sep \o Join(Tail(elems), sep)

(***************************************************************************)
(* Request bodies and json.Decoder.Decode into a types.Student             *)
(***************************************************************************)
JNum(n) == [t |-> "number", n |-> n, s |-> ""]

JStr(s) == [t |-> "string", n |-> 0, s |-> s]

Keys == {"id", "name", "email", "age"}

\* JSON type each struct field accepts: Id int64, Email string, Name string, Age int
FieldType == [id |-> "number", name |-> "string", email |-> "string", age |-> "number"]

BodyEmpty == [kind |-> "empty", obj |-> <<>>]

\* a non-empty body that is not JSON, e.g. the bytes  x
BodyMalformed == [kind |-> "malformed", obj |-> <<>>]

\* the JSON value null
BodyNull == [kind |-> "null", obj |-> <<>>]

BodyObject(o) == [kind |-> "object", obj |-> o]

\* bodies that decode to a Student passing validation; the second carries an id
ValidBodies ==
  { BodyObject([name |-> JStr("ann"), email |-> JStr("a@b.com"), age |-> JNum(5)]),
    BodyObject([id |-> JNum(2), name |-> JStr("bob"), email |-> JStr("c@d.org"),
                age |-> JNum(7)]) }

\* bodies that decode but fail validation on one or more fields
InvalidBodies ==
  { BodyNull,
    BodyObject([name |-> JStr(""), email |-> JStr("a@b.com"), age |-> JNum(5)]),
    BodyObject([name |-> JStr("ann"), email |-> JStr(""), age |-> JNum(5)]),
    BodyObject([id |-> JNum(2), name |-> JStr("bob"), email |-> JStr("c@d.org"),
                age |-> JNum(0)]),
    BodyObject([email |-> JStr("c@d.org")]) }

\* bodies Decode rejects: no bytes, not JSON, age given as a JSON string
UndecodableBodies ==
  { BodyEmpty, BodyMalformed,
    BodyObject([name |-> JStr("ann"), email |-> JStr("a@b.com"), age |-> JStr("5")]) }

Bodies == ValidBodies \cup InvalidBodies \cup UndecodableBodies

\* mutant: bytes that are not JSON are reported as io.EOF as well
DecodeSyntaxAsEOF(body) ==
  CASE body.kind \in {"empty", "malformed"} ->
         [err |-> Err("EOF", "EOF"), student |-> ZeroStudent]
    [] body.kind = "null" -> [err |-> Nil, student |-> ZeroStudent]
    [] body.kind = "object" ->
         LET o == body.obj
             ok(k) == k \in DOMAIN o /\ o[k].t = FieldType[k]
             mismatch == {k \in DOMAIN o : o[k].t # FieldType[k]}
         IN  [err |-> IF mismatch = {} THEN Nil
                      ELSE Err("type", "json: cannot unmarshal string into Go struct field Student.age of type int"),
              student |-> [Id |-> IF ok("id") THEN o["id"].n ELSE 0,
                           Email |-> IF ok("email") THEN o["email"].s ELSE "",
                           Name |-> IF ok("name") THEN o["name"].s ELSE "",
                           Age |-> IF ok("age") THEN o["age"].n ELSE 0]]

\* json.Decoder.Decode(&student): io.EOF on an empty body, a syntax error on
\* bytes that are not JSON, an UnmarshalTypeError on a value of the wrong JSON
\* type; null leaves the struct untouched, a missing key leaves its field zero.
Decode(body) ==
  CASE body.kind = "empty" -> [err |-> Err("EOF", "EOF"), student |-> ZeroStudent]
    [] body.kind = "malformed" ->
         [err |-> Err("syntax", "invalid character 'x' looking for beginning of value"),
          student |-> ZeroStudent]
    [] body.kind = "null" -> [err |-> Nil, student |-> ZeroStudent]
    [] body.kind = "object" ->
         LET o == body.obj
             ok(k) == k \in DOMAIN o /\ o[k].t = FieldType[k]
             mismatch == {k \in DOMAIN o : o[k].t # FieldType[k]}
         IN  [err |-> IF mismatch = {} THEN Nil
                      ELSE Err("type", "json: cannot unmarshal string into Go struct field Student.age of type int"),
              student |-> [Id |-> IF ok("id") THEN o["id"].n ELSE 0,
                           Email |-> IF ok("email") THEN o["email"].s ELSE "",
                           Name |-> IF ok("name") THEN o["name"].s ELSE "",
                           Age |-> IF ok("age") THEN o["age"].n ELSE 0]]

(***************************************************************************)
(* validator.New().Struct(student) and response.ValidationError            *)
(***************************************************************************)
FieldError(field, tag) == [Field |-> field, ActualTag |-> tag]

\* validate:"required" fails on the zero value of the field's type
Required(field, isZero) == IF isZero THEN <<FieldError(field, "required")>> ELSE <<>>

\* mutant: the Age field lost its validate tag
ValidateStructNoAge(student) ==
  Required("Email", student.Email = "") \o Required("Name", student.Name = "")

\* the struct's fields in declaration order: Id (no tag), Email, Name, Age
ValidateStruct(student) ==
  Required("Email", student.Email = "")
    \o Required("Name", student.Name = "")
    \o Required("Age", student.Age = 0)

GoResponse(status, error) == [go |-> "Response", Status |-> status, Error |-> error]

GeneralError(err) == GoResponse("Error", err.text)

ErrMsg(e) ==
  IF e.ActualTag = "required" THEN "field " \o e.Field \o " is required"
  ELSE "field " \o e.Field \o " is invalid"

ErrMsgs(errs) == [i \in 1..Len(errs) |-> ErrMsg(errs[i])]

\* mutant: only the first failing field is reported
ValidationErrorFirstOnly(errs) == GoResponse("Error", ErrMsg(errs[1]))

ValidationError(errs) == GoResponse("Error", Join(ErrMsgs(errs), ", "))

(***************************************************************************)
(* response.WriteJSON: the http.ResponseWriter and json.Encoder.Encode     *)
(***************************************************************************)
GoStudent(s) == [go |-> "Student", v |-> s]

\* a []types.Student; isNil distinguishes the nil slice from an allocated one
GoSlice(isNil, items) == [go |-> "slice", isNil |-> isNil, items |-> items]

GoString(text) == [go |-> "string", text |-> text]

\* map[string]int64{"id": id}
GoIdMap(id) == [go |-> "map", id |-> id]

\* an error value passed as data
GoError(err) == [go |-> "error", err |-> err]

JNull == [kind |-> "null"]

JString(text) == [kind |-> "string", text |-> text]

JArray(items) == [kind |-> "array", items |-> items]

JObject(obj) == [kind |-> "object", obj |-> obj]

\* the Student struct's json tags: id, email, name, age
StudentJSON(s) == JObject([id |-> s.Id, email |-> s.Email, name |-> s.Name, age |-> s.Age])

\* json.Encoder.Encode: a struct is an object of its exported fields, a nil
\* slice is null, an error value is the object of its dynamic type's exported
\* fields (sqlite3.Error: Code, ExtendedCode, SystemErrno; not its message)
Encode(data) ==
  CASE data.go = "Response" -> JObject([Status |-> data.Status, Error |-> data.Error])
    [] data.go = "Student" -> StudentJSON(data.v)
    [] data.go = "slice" ->
         IF data.isNil THEN JNull
         ELSE JArray([i \in 1..Len(data.items) |-> StudentJSON(data.items[i])])
    [] data.go = "string" -> JString(data.text)
    [] data.go = "map" -> JObject([id |-> data.id])
    [] data.go = "error" -> JObject([Code |-> 5, ExtendedCode |-> 5, SystemErrno |-> 0])

\* the ResponseWriter of a request before the handler ran
NoResponse == [status |-> 0, body |-> <<>>]

\* WriteHeader takes effect once; every Encode appends to the body
WriteJSON(w, status, data) ==
  [status |-> IF w.status = 0 THEN status ELSE w.status,
   body |-> Append(w.body, Encode(data))]

StatusOK == 200
StatusCreated == 201
StatusBadRequest == 400
StatusInternalServerError == 500

(***************************************************************************)
(* strconv.ParseInt(id, 10, 64)                                            *)
(***************************************************************************)
DigitVal ==
  [c \in {"0", "1", "2", "3", "4", "5", "6", "7", "8", "9"} |->
     CASE c = "0" -> 0 [] c = "1" -> 1 [] c = "2" -> 2 [] c = "3" -> 3 [] c = "4" -> 4
       [] c = "5" -> 5 [] c = "6" -> 6 [] c = "7" -> 7 [] c = "8" -> 8 [] c = "9" -> 9]

RECURSIVE Digits(_)
\* value of a non-empty sequence of decimal digits
Digits(ds) ==
  IF Len(ds) = 1 THEN DigitVal[ds[1]]
  ELSE 10 * Digits(SubSeq(ds, 1, Len(ds) - 1)) + DigitVal[ds[Len(ds)]]

\* an optional sign, then one or more decimal digits; anything else is
\* ErrSyntax (the path values here are far shorter than an int64 overflow)
ParseInt(s) ==
  LET synErr == Err("syntax", "strconv.ParseInt: parsing \"" \o Join(s, "") \o "\": invalid syntax")
      signed == s # <<>> /\ s[1] \in {"+", "-"}
      ds == IF signed THEN Tail(s) ELSE s
  IN  IF ds = <<>> \/ \E i \in 1..Len(ds) : ds[i] \notin DOMAIN DigitVal
      THEN [err |-> synErr, n |-> 0]
      ELSE [err |-> Nil, n |-> IF signed /\ s[1] = "-" THEN 0 - Digits(ds) ELSE Digits(ds)]

(***************************************************************************)
(* Storage: the sqlite implementation.  Every method returns its result    *)
(* together with the table and the AUTOINCREMENT counter it leaves.        *)
(***************************************************************************)
Row(name, email, age) == [name |-> name, email |-> email, age |-> age]

\* the error a statement returns while the database cannot be used
StorageErr == Err("sqlite", "database is locked")

Max(a, b) == IF a >= b THEN a ELSE b

RECURSIVE MaxOf(_)
MaxOf(S) == IF S = {} THEN 0 ELSE LET x == CHOOSE y \in S : TRUE IN Max(x, MaxOf(S \ {x}))

\* AUTOINCREMENT: one more than the largest rowid the table has ever held
NextRowId == Max(seq, MaxOf(DOMAIN students)) + 1

\* mutant: plain INTEGER PRIMARY KEY, one more than the largest rowid present
CreateStudentNoAutoincrement(name, email, age) ==
  IF ~dbOk THEN [err |-> StorageErr, id |-> 0, students |-> students, seq |-> seq]
  ELSE [err |-> Nil, id |-> MaxOf(DOMAIN students) + 1,
        students |-> ((MaxOf(DOMAIN students) + 1) :> Row(name, email, age)) @@ students,
        seq |-> Max(seq, MaxOf(DOMAIN students) + 1)]

\* mutant: the age column is bound to the wrong parameter
CreateStudentAgeLost(name, email, age) ==
  IF ~dbOk THEN [err |-> StorageErr, id |-> 0, students |-> students, seq |-> seq]
  ELSE [err |-> Nil, id |-> NextRowId,
        students |-> (NextRowId :> Row(name, email, 1)) @@ students, seq |-> NextRowId]

\* INSERT INTO students (name,email,age) VALUES (?,?,?); LastInsertId
CreateStudent(name, email, age) ==
  IF ~dbOk THEN [err |-> StorageErr, id |-> 0, students |-> students, seq |-> seq]
  ELSE [err |-> Nil, id |-> NextRowId,
        students |-> (NextRowId :> Row(name, email, age)) @@ students, seq |-> NextRowId]

\* mutant: a missing row scans as the zero Student without an error
GetStudentByIdNoRowsIgnored(id) ==
  IF ~dbOk THEN [err |-> StorageErr, student |-> ZeroStudent]
  ELSE IF id \notin DOMAIN students THEN [err |-> Nil, student |-> ZeroStudent]
  ELSE [err |-> Nil,
        student |-> Student(id, students[id].name, students[id].email, students[id].age)]

\* SELECT * FROM students WHERE id = ?; Scan(&Id, &Name, &Email, &Age)
GetStudentById(id) ==
  IF ~dbOk THEN [err |-> StorageErr, student |-> ZeroStudent]
  ELSE IF id \notin DOMAIN students
  THEN [err |-> Err("notfound", "student not found with id " \o ToString(id)),
        student |-> ZeroStudent]
  ELSE [err |-> Nil,
        student |-> Student(id, students[id].name, students[id].email, students[id].age)]

RECURSIVE InRowidOrder(_)
\* the ids of S in ascending order: the order of a scan of the rowid table
InRowidOrder(S) ==
  IF S = {} THEN <<>>
  ELSE LET m == CHOOSE x \in S : \A y \in S : x <= y IN <<m>> \o InRowidOrder(S \ {m})

\* mutant: the scan loop stops after the first row
GetAllStudentsFirstRowOnly ==
  IF ~dbOk THEN [err |-> StorageErr, students |-> GoSlice(TRUE, <<>>)]
  ELSE LET ids == InRowidOrder(DOMAIN students)
       IN  [err |-> Nil,
            students |-> GoSlice(ids = <<>>,
              [i \in 1..(IF ids = <<>> THEN 0 ELSE 1) |->
                 Student(ids[i], students[ids[i]].name, students[ids[i]].email,
                         students[ids[i]].age)])]

\* SELECT id,name,email,age FROM students; var students []types.Student is
\* nil until the first append
GetAllStudents ==
  IF ~dbOk THEN [err |-> StorageErr, students |-> GoSlice(TRUE, <<>>)]
  ELSE LET ids == InRowidOrder(DOMAIN students)
       IN  [err |-> Nil,
            students |-> GoSlice(ids = <<>>,
              [i \in 1..Len(ids) |->
                 Student(ids[i], students[ids[i]].name, students[ids[i]].email,
                         students[ids[i]].age)])]

\* mutant: INSERT OR REPLACE instead of UPDATE
UpdateStudentUpsert(id, name, email, age) ==
  IF ~dbOk THEN [err |-> StorageErr, student |-> ZeroStudent, students |-> students]
  ELSE [err |-> Nil, student |-> Student(id, name, email, age),
        students |-> (id :> Row(name, email, age)) @@ students]

\* mutant: the statement writes a column only where the new value is larger
UpdateStudentKeepsLarger(id, name, email, age) ==
  IF ~dbOk THEN [err |-> StorageErr, student |-> ZeroStudent, students |-> students]
  ELSE IF id \notin DOMAIN students
  THEN [err |-> Err("norows", "no rows affected"), student |-> ZeroStudent,
        students |-> students]
  ELSE [err |-> Nil, student |-> Student(id, name, email, age),
        students |-> [students EXCEPT ![id] =
                        Row(name, email, Max(age, students[id].age))]]

\* mutant: the SET clause leaves the age column out
UpdateStudentAgeKept(id, name, email, age) ==
  IF ~dbOk THEN [err |-> StorageErr, student |-> ZeroStudent, students |-> students]
  ELSE IF id \notin DOMAIN students
  THEN [err |-> Err("norows", "no rows affected"), student |-> ZeroStudent,
        students |-> students]
  ELSE [err |-> Nil, student |-> Student(id, name, email, age),
        students |-> [students EXCEPT ![id] = Row(name, email, students[id].age)]]

\* UPDATE students SET name=?, email=?,age=? WHERE id=?; RowsAffected counts
\* the rows the WHERE matched; the returned Student is built from the input
UpdateStudent(id, name, email, age) ==
  IF ~dbOk THEN [err |-> StorageErr, student |-> ZeroStudent, students |-> students]
  ELSE IF Cardinality({i \in DOMAIN students : i = id}) = 0
  THEN [err |-> Err("norows", "no rows affected"), student |-> ZeroStudent,
        students |-> students]
  ELSE [err |-> Nil, student |-> Student(id, name, email, age),
        students |-> [i \in DOMAIN students |->
                        IF i = id THEN Row(name, email, age) ELSE students[i]]]

\* mutant: the WHERE clause compares with <= and removes lower ids as well
DeleteStudentByIdAndBelow(id) ==
  IF ~dbOk THEN [err |-> StorageErr, students |-> students]
  ELSE [err |-> Nil,
        students |-> [i \in {j \in DOMAIN students : j > id} |-> students[i]]]

\* mutant: an existence check fails the delete of an id that has no row
DeleteStudentByIdMustExist(id) ==
  IF ~dbOk THEN [err |-> StorageErr, students |-> students]
  ELSE IF id \notin DOMAIN students
  THEN [err |-> Err("notfound", "student not found with id " \o ToString(id)),
        students |-> students]
  ELSE [err |-> Nil, students |-> [i \in DOMAIN students \ {id} |-> students[i]]]

\* DELETE FROM students WHERE id=?
DeleteStudentById(id) ==
  IF ~dbOk THEN [err |-> StorageErr, students |-> students]
  ELSE [err |-> Nil, students |-> [i \in DOMAIN students \ {id} |-> students[i]]]

\* mutant: the statement spares the newest row
DeleteAllStudentsButNewest ==
  IF ~dbOk THEN [err |-> StorageErr, students |-> students]
  ELSE [err |-> Nil,
        students |-> [i \in DOMAIN students \cap {MaxOf(DOMAIN students)} |-> students[i]]]

\* DELETE FROM students (the AUTOINCREMENT counter is kept)
DeleteAllStudents ==
  IF ~dbOk THEN [err |-> StorageErr, students |-> students]
  ELSE [err |-> Nil, students |-> [i \in {} |-> students[i]]]

\* sqlite.New: CREATE TABLE IF NOT EXISTS students (...), on a new database
EmptyTable == [i \in {} |-> Row("", "", 0)]

(***************************************************************************)
(* Handlers.  Each yields what the request leaves behind: the response     *)
(* written, the storage methods called, the table, the counter, and        *)
(* whether the process is still running.                                   *)
(***************************************************************************)
Outcome(w, c, tbl, sq, run) ==
  [resp |-> w, calls |-> c, students |-> tbl, seq |-> sq, running |-> run]

\* mutant: a non-zero id in the body is inserted as the row's id
NewHandlerBodyId(body) ==
  LET d == Decode(body)
      student == d.student
      verrs == ValidateStruct(student)
      r == CreateStudent(student.Name, student.Email, student.Age)
      id == IF student.Id # 0 THEN student.Id ELSE r.id
  IN  IF d.err.kind = "EOF"
      THEN Outcome(WriteJSON(NoResponse, StatusBadRequest,
                             GeneralError(Err("", "empty body"))),
                   <<>>, students, seq, TRUE)
      ELSE IF ~d.err.isNil
      THEN Outcome(WriteJSON(NoResponse, StatusBadRequest, GeneralError(d.err)),
                   <<>>, students, seq, TRUE)
      ELSE IF verrs # <<>>
      THEN Outcome(WriteJSON(NoResponse, StatusBadRequest, ValidationError(verrs)),
                   <<>>, students, seq, TRUE)
      ELSE IF ~r.err.isNil \/ id \in DOMAIN students
      THEN Outcome(WriteJSON(NoResponse, StatusInternalServerError, GoError(StorageErr)),
                   <<"CreateStudent">>, students, seq, TRUE)
      ELSE Outcome(WriteJSON(NoResponse, StatusCreated, GoIdMap(id)),
                   <<"CreateStudent">>,
                   (id :> Row(student.Name, student.Email, student.Age)) @@ students,
                   Max(seq, id), TRUE)

\* POST /api/students
NewHandler(body) ==
  LET d == Decode(body)
      student == d.student
      verrs == ValidateStruct(student)
      r == CreateStudent(student.Name, student.Email, student.Age)
  IN  IF d.err.kind = "EOF"
      THEN Outcome(WriteJSON(NoResponse, StatusBadRequest,
                             GeneralError(Err("", "empty body"))),
                   <<>>, students, seq, TRUE)
      ELSE IF ~d.err.isNil
      THEN Outcome(WriteJSON(NoResponse, StatusBadRequest, GeneralError(d.err)),
                   <<>>, students, seq, TRUE)
      ELSE IF verrs # <<>>
      THEN Outcome(WriteJSON(NoResponse, StatusBadRequest, ValidationError(verrs)),
                   <<>>, students, seq, TRUE)
      ELSE IF ~r.err.isNil
      THEN Outcome(WriteJSON(NoResponse, StatusInternalServerError, GoError(r.err)),
                   <<"CreateStudent">>, r.students, r.seq, TRUE)
      ELSE Outcome(WriteJSON(NoResponse, StatusCreated, GoIdMap(r.id)),
                   <<"CreateStudent">>, r.students, r.seq, TRUE)

\* GET /api/students/{id}; log.Fatal ends the process without a response
GetByIdHandler(id) ==
  LET p == ParseInt(id)
      r == GetStudentById(p.n)
  IN  IF ~p.err.isNil
      THEN Outcome(NoResponse, <<>>, students, seq, FALSE)
      ELSE IF ~r.err.isNil
      THEN Outcome(WriteJSON(NoResponse, StatusInternalServerError, GeneralError(r.err)),
                   <<"GetStudentById">>, students, seq, TRUE)
      ELSE Outcome(WriteJSON(NoResponse, StatusOK, GoStudent(r.student)),
                   <<"GetStudentById">>, students, seq, TRUE)

\* GET /api/students
GetAllHandler ==
  LET r == GetAllStudents
  IN  IF ~r.err.isNil
      THEN Outcome(WriteJSON(NoResponse, StatusInternalServerError, GoError(r.err)),
                   <<"GetAllStudents">>, students, seq, TRUE)
      ELSE Outcome(WriteJSON(NoResponse, StatusOK, r.students),
                   <<"GetAllStudents">>, students, seq, TRUE)

\* PUT /api/students/{id}
UpdateHandler(id, body) ==
  LET p == ParseInt(id)
      d == Decode(body)
      student == d.student
      verrs == ValidateStruct(student)
      r == UpdateStudent(p.n, student.Name, student.Email, student.Age)
  IN  IF ~p.err.isNil
      THEN Outcome(NoResponse, <<>>, students, seq, FALSE)
      ELSE IF d.err.kind = "EOF"
      THEN Outcome(WriteJSON(NoResponse, StatusInternalServerError, GeneralError(d.err)),
                   <<>>, students, seq, TRUE)
      ELSE IF ~d.err.isNil
      THEN Outcome(WriteJSON(NoResponse, StatusInternalServerError, GeneralError(d.err)),
                   <<>>, students, seq, TRUE)
      ELSE IF verrs # <<>>
      THEN Outcome(WriteJSON(NoResponse, StatusBadRequest, ValidationError(verrs)),
                   <<>>, students, seq, TRUE)
      ELSE IF ~r.err.isNil
      THEN Outcome(WriteJSON(NoResponse, StatusInternalServerError, GeneralError(r.err)),
                   <<"UpdateStudent">>, r.students, seq, TRUE)
      ELSE Outcome(WriteJSON(NoResponse, StatusOK, GoStudent(r.student)),
                   <<"UpdateStudent">>, r.students, seq, TRUE)

\* DELETE /api/students/{id}; after a failed delete the handler does not
\* return and goes on to write the success message
DeleteByIdHandler(id) ==
  LET p == ParseInt(id)
      r == DeleteStudentById(p.n)
      w1 == IF ~r.err.isNil
            THEN WriteJSON(NoResponse, StatusInternalServerError, GeneralError(r.err))
            ELSE NoResponse
  IN  IF ~p.err.isNil
      THEN Outcome(WriteJSON(NoResponse, StatusInternalServerError, GeneralError(p.err)),
                   <<>>, students, seq, TRUE)
      ELSE Outcome(WriteJSON(w1, StatusOK, GoString("student deleted successfully")),
                   <<"DeleteStudentById">>, r.students, seq, TRUE)

\* DELETE /api/students
DeleteAllHandler ==
  LET r == DeleteAllStudents
  IN  IF ~r.err.isNil
      THEN Outcome(WriteJSON(NoResponse, StatusInternalServerError, GeneralError(r.err)),
                   <<"DeleteAllStudents">>, r.students, seq, TRUE)
      ELSE Outcome(WriteJSON(NoResponse, StatusOK,
                             GoString("deleted all students successfully")),
                   <<"DeleteAllStudents">>, r.students, seq, TRUE)

(***************************************************************************)
(* The server: one request at a time, served while the process runs        *)
(***************************************************************************)
Request(op, id, body) == [op |-> op, id |-> id, body |-> body]

NoRequest == Request("none", <<>>, BodyEmpty)

\* the requests being served at the same time, each by its own goroutine
Slots == {"a", "b"}

\* a goroutine slot: where its handler stands, its request, the response it
\* has built, and the position of its storage statement among those executed
Slot(pc, r, w, order) == [pc |-> pc, req |-> r, resp |-> w, order |-> order]

Idle == Slot("idle", NoRequest, NoResponse, 0)

Init ==
  /\ students = EmptyTable
  /\ seq = 0
  /\ dbOk = TRUE
  /\ running = TRUE
  /\ req = NoRequest
  /\ resp = NoResponse
  /\ calls = <<>>
  /\ inflight = [s \in Slots |-> Idle]

New ==
  \E body \in Bodies :
    \E o \in {NewHandler(body)} :
        /\ running
        /\ o.seq <= MaxCreates
        /\ req' = Request("create", <<>>, body)
        /\ resp' = o.resp
        /\ calls' = o.calls
        /\ students' = o.students
        /\ seq' = o.seq
        /\ running' = o.running
        /\ UNCHANGED <<dbOk, inflight>>

GetById ==
  \E id \in PathIds :
    \E o \in {GetByIdHandler(id)} :
        /\ running
        /\ o.seq <= MaxCreates
        /\ req' = Request("getById", id, BodyEmpty)
        /\ resp' = o.resp
        /\ calls' = o.calls
        /\ students' = o.students
        /\ seq' = o.seq
        /\ running' = o.running
        /\ UNCHANGED <<dbOk, inflight>>

GetAll ==
  \E o \in {GetAllHandler} :
      /\ running
      /\ o.seq <= MaxCreates
      /\ req' = Request("getAll", <<>>, BodyEmpty)
      /\ resp' = o.resp
      /\ calls' = o.calls
      /\ students' = o.students
      /\ seq' = o.seq
      /\ running' = o.running
      /\ UNCHANGED <<dbOk, inflight>>

Update ==
  \E id \in PathIds, body \in Bodies :
    \E o \in {UpdateHandler(id, body)} :
        /\ running
        /\ o.seq <= MaxCreates
        /\ req' = Request("update", id, body)
        /\ resp' = o.resp
        /\ calls' = o.calls
        /\ students' = o.students
        /\ seq' = o.seq
        /\ running' = o.running
        /\ UNCHANGED <<dbOk, inflight>>

DeleteById ==
  \E id \in PathIds :
    \E o \in {DeleteByIdHandler(id)} :
        /\ running
        /\ o.seq <= MaxCreates
        /\ req' = Request("deleteById", id, BodyEmpty)
        /\ resp' = o.resp
        /\ calls' = o.calls
        /\ students' = o.students
        /\ seq' = o.seq
        /\ running' = o.running
        /\ UNCHANGED <<dbOk, inflight>>

DeleteAll ==
  \E o \in {DeleteAllHandler} :
      /\ running
      /\ o.seq <= MaxCreates
      /\ req' = Request("deleteAll", <<>>, BodyEmpty)
      /\ resp' = o.resp
      /\ calls' = o.calls
      /\ students' = o.students
      /\ seq' = o.seq
      /\ running' = o.running
      /\ UNCHANGED <<dbOk, inflight>>

Next == New \/ GetById \/ GetAll \/ Update \/ DeleteById \/ DeleteAll

Spec == Init /\ [][Next]_vars

\* the database becomes unusable (locked, disk full) or usable again
StorageFault ==
  running /\ dbOk' = ~dbOk /\ UNCHANGED <<students, seq, running, req, resp, calls, inflight>>

NextFault == Next \/ StorageFault

SpecFault == Init /\ [][NextFault]_vars

(***************************************************************************)
(* Concurrent requests.  A handler touches shared state only in its one    *)
(* storage statement, which SQLite executes atomically; what comes before  *)
(* (parse, decode, validate) and after (building the response) is local to *)
(* the goroutine.  A request is accepted, its statement executes, its      *)
(* response is delivered; requests in flight interleave freely.            *)
(***************************************************************************)
\* the requests sent concurrently
ConcRequests ==
  { Request("create", <<>>, b) : b \in ValidBodies }
    \cup { Request("update", <<"1">>, b) : b \in ValidBodies }
    \cup { Request("update", <<"0", "2">>, b) : b \in ValidBodies }
    \cup { Request("deleteAll", <<>>, BodyEmpty) }

\* the router: the handler registered for the request's method and path
Handle(r) ==
  CASE r.op = "create" -> NewHandler(r.body)
    [] r.op = "getById" -> GetByIdHandler(r.id)
    [] r.op = "getAll" -> GetAllHandler
    [] r.op = "update" -> UpdateHandler(r.id, r.body)
    [] r.op = "deleteById" -> DeleteByIdHandler(r.id)
    [] r.op = "deleteAll" -> DeleteAllHandler

\* the server starts a goroutine for an incoming request
Accept ==
  \E s \in Slots, r \in ConcRequests :
    /\ running
    /\ inflight[s].pc = "idle"
    /\ inflight' = [inflight EXCEPT ![s] = Slot("ready", r, NoResponse, 0)]
    /\ UNCHANGED <<students, seq, dbOk, running, req, resp, calls>>

\* the handler's storage statement executes against the table as it is now
Exec ==
  \E s \in Slots :
    /\ running
    /\ inflight[s].pc = "ready"
    /\ \E o \in {Handle(inflight[s].req)} :
         /\ o.seq <= MaxCreates
         /\ students' = o.students
         /\ seq' = o.seq
         /\ running' = o.running
         /\ inflight' =
              [inflight EXCEPT ![s] =
                 Slot("executed", inflight[s].req, o.resp,
                      1 + Cardinality({t \in Slots : inflight[t].pc \in {"executed", "done"}}))]
    /\ UNCHANGED <<dbOk, req, resp, calls>>

\* the handler returns and its response reaches the client
Reply ==
  \E s \in Slots :
    /\ running
    /\ inflight[s].pc = "executed"
    /\ inflight' = [inflight EXCEPT ![s].pc = "done"]
    /\ UNCHANGED <<students, seq, dbOk, running, req, resp, calls>>

\* every request in flight has completed; the goroutines are gone
Finish ==
  /\ \A s \in Slots : inflight[s].pc \in {"idle", "done"}
  /\ \E s \in Slots : inflight[s].pc = "done"
  /\ inflight' = [s \in Slots |-> Idle]
  /\ UNCHANGED <<students, seq, dbOk, running, req, resp, calls>>

NextConc == Accept \/ Exec \/ Reply \/ Finish

SpecConc == Init /\ [][NextConc]_vars

(***************************************************************************)
(* Reading a request and a response as a client sees them                  *)
(***************************************************************************)
\* the value a request body gives for a key ("" or 0 when it gives none)
NameOf(body) ==
  IF body.kind = "object" /\ "name" \in DOMAIN body.obj THEN body.obj["name"].s ELSE ""

EmailOf(body) ==
  IF body.kind = "object" /\ "email" \in DOMAIN body.obj THEN body.obj["email"].s ELSE ""

AgeOf(body) ==
  IF body.kind = "object" /\ "age" \in DOMAIN body.obj THEN body.obj["age"].n ELSE 0

\* the body is JSON that fits the Student shape
Decodable(body) ==
  \/ body.kind = "null"
  \/ /\ body.kind = "object"
     /\ \A k \in DOMAIN body.obj :
          body.obj[k].t = (IF k \in {"id", "age"} THEN "number" ELSE "string")

ValidInput(body) ==
  Decodable(body) /\ NameOf(body) # "" /\ EmailOf(body) # "" /\ AgeOf(body) # 0

IdRange == (0 - 9)..9

\* the path segment is a decimal spelling of the integer n
PathDenotes(path, n) ==
  \/ n >= 0 /\ path \in {<<ToString(n)>>, <<"0", ToString(n)>>, <<"+", ToString(n)>>}
  \/ n < 0 /\ path = <<"-", ToString(0 - n)>>

IntPath(path) == \E n \in IdRange : PathDenotes(path, n)

\* the response is one JSON document, the error envelope with this text
IsEnvelope(r, status, text) ==
  /\ r.status = status
  /\ r.body = <<JObject([Status |-> "Error", Error |-> text])>>

\* the response is one JSON document, this Student
IsStudent(r, status, id, name, email, age) ==
  /\ r.status = status
  /\ r.body = <<JObject([id |-> id, email |-> email, name |-> name, age |-> age])>>

TableUnchanged == students' = students /\ seq' = seq

(***************************************************************************)
(* C1: a valid POST answers 201 with a positive id, and a GET of that id   *)
(* issued next answers 200 with the input's name, email and age under the  *)
(* returned id, whatever id the POST body carried.                         *)
(***************************************************************************)
CreateAnswersId ==
  (req.op = "create" /\ ValidInput(req.body)) =>
     /\ resp.status = 201
     /\ Len(resp.body) = 1
     /\ resp.body[1].kind = "object"
     /\ DOMAIN resp.body[1].obj = {"id"}
     /\ resp.body[1].obj.id > 0

GetAfterCreate ==
  (/\ req.op = "create" /\ resp.status = 201
   /\ req'.op = "getById" /\ req'.id = <<ToString(resp.body[1].obj.id)>>) =>
     IsStudent(resp', 200, resp.body[1].obj.id,
               NameOf(req.body), EmailOf(req.body), AgeOf(req.body))

C1_CreateThenGetRoundTrip == [][CreateAnswersId' /\ GetAfterCreate]_vars

\* a GET has returned the row of the latest create, whose id is not the body's
C1_Witness ==
  /\ req.op = "getById" /\ resp.status = 200
  /\ seq = 1 /\ seq \in DOMAIN students
  /\ resp.body[1].obj.id = seq
  /\ resp.body[1].obj.name = "bob"

(***************************************************************************)
(* C2: every persisted Student has a non-empty name, a non-empty email and *)
(* a non-zero age.                                                         *)
(***************************************************************************)
C2_PersistedStudentsValid ==
  \A id \in DOMAIN students :
    students[id].name # "" /\ students[id].email # "" /\ students[id].age # 0

\* rows are persisted and an invalid body has just been turned away
C2_Witness ==
  /\ Cardinality(DOMAIN students) >= 2
  /\ req.op \in {"create", "update"}
  /\ Decodable(req.body) /\ ~ValidInput(req.body)
  /\ resp.status = 400

(***************************************************************************)
(* C3: create and update answer a decoded body with an empty name, an      *)
(* empty email or a zero age with 400 and the messages "field X is         *)
(* required", one per failing field and none for a passing one, joined     *)
(* with ", "; no storage method is called and the table is unchanged.      *)
(***************************************************************************)
FailingFields(body) ==
  {f \in {"Name", "Email", "Age"} :
     \/ f = "Name" /\ NameOf(body) = ""
     \/ f = "Email" /\ EmailOf(body) = ""
     \/ f = "Age" /\ AgeOf(body) = 0}

\* the texts that list each field of F once, in some order
RequiredTexts(F) ==
  {Join([i \in 1..Cardinality(F) |-> "field " \o p[i] \o " is required"], ", ") :
     p \in {q \in [1..Cardinality(F) -> F] : \A i, j \in 1..Cardinality(F) : q[i] = q[j] => i = j}}

ValidationCase ==
  /\ req.op \in {"create", "update"}
  /\ req.op = "update" => IntPath(req.id)
  /\ Decodable(req.body)
  /\ ~ValidInput(req.body)

ValidationRejected ==
  ValidationCase =>
     /\ \E text \in RequiredTexts(FailingFields(req.body)) : IsEnvelope(resp, 400, text)
     /\ calls = <<>>
     /\ (req.body = BodyObject([name |-> JStr(""), email |-> JStr("a@b.com"), age |-> JNum(5)])
           => IsEnvelope(resp, 400, "field Name is required"))

C3_ValidationErrorPerField ==
  [][ValidationRejected' /\ (ValidationCase' => TableUnchanged)]_vars

\* an update naming two failing fields was rejected while rows are persisted
C3_Witness ==
  /\ ValidationCase
  /\ req.op = "update"
  /\ Cardinality(FailingFields(req.body)) = 2
  /\ resp.status = 400
  /\ students # EmptyTable

(***************************************************************************)
(* C4: POST with an empty body answers 400 with the envelope text "empty   *)
(* body"; POST with a non-empty body that is not JSON answers 400 with a   *)
(* different text; neither calls CreateStudent nor changes the table.      *)
(***************************************************************************)
CreateUndecoded ==
  /\ (req.op = "create" /\ req.body = BodyEmpty) =>
        IsEnvelope(resp, 400, "empty body") /\ calls = <<>>
  /\ (req.op = "create" /\ req.body = BodyMalformed) =>
        /\ \E text \in {resp.body[1].obj.Error} :
             text # "empty body" /\ IsEnvelope(resp, 400, text)
        /\ calls = <<>>

C5_UpdateUndecodedIs400 ==
  (req.op = "update" /\ IntPath(req.id) /\ req.body \in {BodyEmpty, BodyMalformed}) =>
     /\ resp.status = 400
     /\ calls = <<>>

(***************************************************************************)
(* C6: GET of an integer id that matches no row answers 500 with the       *)
(* error envelope carrying the not-found message, never 200 with a         *)
(* zero-valued Student, and leaves the table unchanged.                    *)
(***************************************************************************)
GetMissing ==
  \A n \in IdRange :
    (req.op = "getById" /\ PathDenotes(req.id, n) /\ n \notin DOMAIN students) =>
       IsEnvelope(resp, 500, "student not found with id " \o ToString(n))

C6_GetMissingIdIs500 == [][GetMissing' /\ (req'.op = "getById" => TableUnchanged)]_vars

\* a GET of an id that was deleted or never created, with other rows present
C6_Witness ==
  /\ req.op = "getById" /\ req.id = <<"0", "2">>
  /\ resp.status = 500
  /\ DOMAIN students = {1, 3}

(***************************************************************************)
(* C7: PUT with a valid body for an integer id that matches no row answers *)
(* 500 "no rows affected"; no row is created and no row changes.           *)
(***************************************************************************)
UpdateMissing ==
  \A n \in IdRange :
    (/\ req'.op = "update" /\ ValidInput(req'.body)
     /\ PathDenotes(req'.id, n) /\ n \notin DOMAIN students) =>
       /\ IsEnvelope(resp', 500, "no rows affected")
       /\ TableUnchanged

C7_UpdateMissingIdFails == [][UpdateMissing]_vars

\* an update of an absent id reached the storage and failed, rows present
C7_Witness ==
  /\ req.op = "update" /\ ValidInput(req.body)
  /\ resp.status = 500 /\ calls = <<"UpdateStudent">>
  /\ students # EmptyTable

(***************************************************************************)
(* C8: DELETE /students answers 200 with "deleted all students             *)
(* successfully", and a GET /students issued next answers 200 with an      *)
(* empty sequence of Students.                                             *)
(***************************************************************************)
DeleteAllAnswers ==
  req.op = "deleteAll" =>
     resp.status = 200 /\ resp.body = <<JString("deleted all students successfully")>>

GetAllAfterDeleteAll ==
  (req.op = "deleteAll" /\ resp.status = 200 /\ req'.op = "getAll") =>
     resp'.status = 200 /\ resp'.body = <<JArray(<<>>)>>

C8_DeleteAllThenGetAllEmpty == [][DeleteAllAnswers' /\ GetAllAfterDeleteAll]_vars

(***************************************************************************)
(* C9: GET /students answers 200 with exactly the persisted Students,      *)
(* each once with its id, name, email and age, and never changes the       *)
(* table.                                                                  *)
(***************************************************************************)
\* the Students a response document lists
Listed(doc) == IF doc.kind = "array" THEN doc.items ELSE <<>>

GetAllExact ==
  req.op = "getAll" =>
     /\ resp.status = 200
     /\ Len(resp.body) = 1
     /\ resp.body[1].kind \in {"array", "null"}
     /\ Len(Listed(resp.body[1])) = Cardinality(DOMAIN students)
     /\ \A id \in DOMAIN students :
          \E i \in 1..Len(Listed(resp.body[1])) :
            Listed(resp.body[1])[i] =
              JObject([id |-> id, email |-> students[id].email,
                       name |-> students[id].name, age |-> students[id].age])

C9_GetAllReturnsExactlyTheTable ==
  [][GetAllExact' /\ (req'.op = "getAll" => TableUnchanged)]_vars

\* a GET /students listed a table of several rows
C9_Witness ==
  /\ req.op = "getAll" /\ resp.status = 200
  /\ Cardinality(DOMAIN students) >= 2
  /\ Len(Listed(resp.body[1])) >= 2

(***************************************************************************)
(* C10: PUT with a valid body for an existing id answers 200 with the      *)
(* Student of the path id and the body's name, email and age, overwrites   *)
(* those three fields of that row and of no other, keeps the ids, and a    *)
(* GET of that id issued next returns the same Student.                    *)
(***************************************************************************)
UpdateExisting ==
  \A n \in IdRange :
    (/\ req'.op = "update" /\ ValidInput(req'.body)
     /\ PathDenotes(req'.id, n) /\ n \in DOMAIN students) =>
       /\ IsStudent(resp', 200, n, NameOf(req'.body), EmailOf(req'.body), AgeOf(req'.body))
       /\ DOMAIN students' = DOMAIN students
       /\ students'[n] = Row(NameOf(req'.body), EmailOf(req'.body), AgeOf(req'.body))
       /\ \A m \in DOMAIN students \ {n} : students'[m] = students[m]
       /\ seq' = seq

GetAfterUpdate ==
  (/\ req.op = "update" /\ resp.status = 200
   /\ req'.op = "getById" /\ req'.id = <<ToString(resp.body[1].obj.id)>>) =>
     resp' = resp

C10_UpdateOverwritesRow == [][UpdateExisting /\ GetAfterUpdate]_vars

\* row 1 was overwritten by a body that names id 2, another row present
C10_Witness ==
  /\ req.op = "update" /\ req.id = <<"1">> /\ resp.status = 200
  /\ "id" \in DOMAIN req.body.obj
  /\ DOMAIN students = {1, 2}
  /\ students[1] # students[2]


(***************************************************************************)
(* C11: DELETE /students/{id} for an existing id answers 200 with          *)
(* "student deleted successfully", removes that row and leaves every other *)
(* row unchanged; a GET of that id issued next answers with an error.      *)
(***************************************************************************)
IsDeleted(r) ==
  r.status = 200 /\ r.body = <<JString("student deleted successfully")>>

DeleteExisting ==
  \A n \in IdRange :
    (req'.op = "deleteById" /\ PathDenotes(req'.id, n) /\ n \in DOMAIN students) =>
       /\ IsDeleted(resp')
       /\ DOMAIN students' = DOMAIN students \ {n}
       /\ \A m \in DOMAIN students \ {n} : students'[m] = students[m]
       /\ seq' = seq

GetAfterDelete ==
  (/\ req.op = "deleteById" /\ IsDeleted(resp)
   /\ req'.op = "getById" /\ req'.id = req.id) =>
     /\ resp'.status >= 400
     /\ resp'.body[1].kind = "object"
     /\ DOMAIN resp'.body[1].obj = {"Status", "Error"}

C11_DeleteByIdThenGetErrors == [][DeleteExisting /\ GetAfterDelete]_vars

\* row 2 has been deleted out of three, the others are still there
C11_Witness ==
  /\ req.op = "deleteById" /\ req.id = <<"0", "2">> /\ IsDeleted(resp)
  /\ seq = 3 /\ DOMAIN students = {1, 3}

(***************************************************************************)
(* C12: DELETE /students/{id} for an integer id that matches no row does   *)
(* not fail: it answers 200 with the success literal and leaves the table  *)
(* as it was, so a second delete of an id changes nothing more.            *)
(***************************************************************************)
DeleteMissing ==
  \A n \in IdRange :
    (req'.op = "deleteById" /\ PathDenotes(req'.id, n) /\ n \notin DOMAIN students) =>
       IsDeleted(resp') /\ TableUnchanged

\* after a delete of n no row n is left, so a repeated delete is a delete of
\* a missing id
DeletedIsGone ==
  \A n \in IdRange :
    (req.op = "deleteById" /\ PathDenotes(req.id, n)) => n \notin DOMAIN students

C12_DeleteByIdIdempotent == [][DeleteMissing /\ DeletedIsGone']_vars

\* id 3 was never created; its delete succeeded with both rows still there
C12_Witness ==
  /\ req.op = "deleteById" /\ req.id = <<"3">> /\ IsDeleted(resp)
  /\ seq = 2 /\ DOMAIN students = {1, 2}


(***************************************************************************)
(* C13: no two persisted Students share an id; an id comes from the        *)
(* server's counter, never from a request body; no request changes the id  *)
(* of a persisted row: ids appear only by a create and disappear only by   *)
(* a delete.                                                               *)
(***************************************************************************)
\* the rows a SELECT of the whole table yields carry pairwise distinct ids
IdsDistinct ==
  \A rows \in {GetAllStudents.students.items} :
    \A i, j \in 1..Len(rows) : rows[i].Id = rows[j].Id => i = j

IdsFromServerOnly ==
  \A added \in {DOMAIN students' \ DOMAIN students},
     removed \in {DOMAIN students \ DOMAIN students'} :
      /\ added # {} =>
           /\ req'.op = "create"
           /\ removed = {}
           /\ added = {seq + 1}
           /\ resp'.status = 201 /\ resp'.body = <<JObject([id |-> seq + 1])>>
      /\ removed # {} => req'.op \in {"deleteById", "deleteAll"}
      /\ req'.op = "update" => DOMAIN students' = DOMAIN students

C13_IdsUniqueServerGeneratedStable == [][IdsDistinct' /\ IdsFromServerOnly]_vars

\* a create whose body names the id of an existing row was given id 3
C13_Witness ==
  /\ req.op = "create" /\ resp.status = 201
  /\ "id" \in DOMAIN req.body.obj /\ req.body.obj["id"].n = 2
  /\ resp.body[1].obj.id = 3
  /\ DOMAIN students = {1, 2, 3}


(***************************************************************************)
(* C14: every error response of every endpoint carries the envelope        *)
(* {"Status":"Error","Error": message}; no endpoint writes a raw error     *)
(* value as the body.                                                      *)
(***************************************************************************)
C14_ErrorResponsesUseEnvelope ==
  resp.status >= 400 =>
     /\ Len(resp.body) >= 1
     /\ resp.body[1].kind = "object"
     /\ DOMAIN resp.body[1].obj = {"Status", "Error"}
     /\ resp.body[1].obj.Status = "Error"

(***************************************************************************)
(* C15: get by id, update and delete by id answer a path id that is not an *)
(* integer with a client error, call no storage method, and the server     *)
(* goes on serving.                                                        *)
(***************************************************************************)
C15_BadPathIdIsClientError ==
  (req.op \in {"getById", "update", "deleteById"} /\ ~IntPath(req.id)) =>
     /\ resp.status >= 400 /\ resp.status < 500
     /\ calls = <<>>
     /\ running

(***************************************************************************)
(* C16: a handler that has written a response has written exactly one      *)
(* status and one JSON document; after an error response nothing more is   *)
(* written, also when DeleteStudentById fails.                             *)
(***************************************************************************)
C16_OneResponsePerRequest ==
  (req.op # "none" /\ resp.status # 0) => Len(resp.body) = 1


(***************************************************************************)
(* C19: ids are never reused: a successful create returns an id strictly   *)
(* greater than every id an earlier create returned, also after rows were  *)
(* removed by delete by id or delete all, which do not reset the counter.  *)
(***************************************************************************)
\* seq is the largest id returned so far: only a successful create moves
\* it, to the id it returns, and that id is larger
CreateReturnsFreshId ==
  IF req'.op = "create" /\ resp'.status = 201
  THEN /\ resp'.body[1].obj.id > seq
       /\ \A id \in DOMAIN students : resp'.body[1].obj.id > id
       /\ seq' = resp'.body[1].obj.id
  ELSE seq' = seq

C19_IdsNeverReused == [][CreateReturnsFreshId]_vars

\* ids 1 and 2 were created and deleted; the next create returned 3
C19_Witness ==
  /\ req.op = "create" /\ resp.status = 201
  /\ resp.body[1].obj.id = 3
  /\ DOMAIN students = {3}


(***************************************************************************)
(* C17: two valid PUTs for the same existing id, served concurrently, both *)
(* answer 200 with their own input; once both have completed the row       *)
(* holds the name, email and age of the one whose statement executed last, *)
(* never a mixture, under the same id, and the earlier one's response      *)
(* body differs from the persisted row.                                    *)
(***************************************************************************)
SlotRow(s) ==
  Row(NameOf(inflight[s].req.body), EmailOf(inflight[s].req.body),
      AgeOf(inflight[s].req.body))

\* slots s and t both serve a valid update of id n
ConcUpdates(s, t, n) ==
  /\ s # t
  /\ \A u \in {s, t} :
       /\ inflight[u].pc # "idle"
       /\ inflight[u].req.op = "update"
       /\ PathDenotes(inflight[u].req.id, n)
       /\ ValidInput(inflight[u].req.body)

LastWriterWins ==
  \A s, t \in Slots, n \in IdRange :
    (ConcUpdates(s, t, n) /\ n \in DOMAIN students) =>
       /\ inflight[s].pc \in {"executed", "done"} =>
            IsStudent(inflight[s].resp, 200, n, SlotRow(s).name, SlotRow(s).email,
                      SlotRow(s).age)
       /\ (/\ inflight[s].pc = "done" /\ inflight[t].pc = "done"
           /\ inflight[s].order < inflight[t].order) =>
            /\ students[n] = SlotRow(t)
            /\ SlotRow(s) # SlotRow(t) =>
                 inflight[s].resp.body #
                   <<JObject([id |-> n, email |-> students[n].email,
                              name |-> students[n].name, age |-> students[n].age])>>

IdsKeptByUpdates ==
  (\E s, t \in Slots, n \in IdRange : ConcUpdates(s, t, n)') =>
     DOMAIN students' = DOMAIN students

C17_ConcurrentUpdatesLastWriterWins == [][LastWriterWins' /\ IdsKeptByUpdates]_vars

\* both updates of row 1 completed, b's statement last, with different
\* inputs; row 2 is there as well
C17_Witness ==
  /\ ConcUpdates("a", "b", 1)
  /\ inflight["a"].pc = "done" /\ inflight["b"].pc = "done"
  /\ inflight["a"].order = 1 /\ inflight["b"].order = 2
  /\ inflight["a"].resp.status = 200 /\ inflight["b"].resp.status = 200
  /\ SlotRow("a") # SlotRow("b")
  /\ DOMAIN students = {1, 2}
  /\ students[1] = SlotRow("b")

(***************************************************************************)
(* C18: a valid POST served concurrently with DELETE /students: both       *)
(* succeed in every interleaving (201 with an id, 200 with the literal),   *)
(* and once both have completed the table is empty or holds exactly the    *)
(* new record and no row from before the delete; so a 201 does not mean    *)
(* the id can still be retrieved.                                          *)
(***************************************************************************)
\* slot s serves a valid create while slot t serves a delete-all
ConcCreateDeleteAll(s, t) ==
  /\ inflight[s].pc # "idle" /\ inflight[t].pc # "idle"
  /\ inflight[s].req.op = "create" /\ ValidInput(inflight[s].req.body)
  /\ inflight[t].req.op = "deleteAll"

CreateVsDeleteAll ==
  \A s, t \in Slots :
    ConcCreateDeleteAll(s, t) =>
       /\ inflight[s].pc \in {"executed", "done"} =>
            /\ inflight[s].resp.status = 201
            /\ Len(inflight[s].resp.body) = 1
            /\ DOMAIN inflight[s].resp.body[1].obj = {"id"}
            /\ inflight[s].resp.body[1].obj.id > 0
       /\ inflight[t].pc \in {"executed", "done"} =>
            /\ inflight[t].resp.status = 200
            /\ inflight[t].resp.body = <<JString("deleted all students successfully")>>
       /\ (inflight[s].pc = "done" /\ inflight[t].pc = "done") =>
            \/ students = EmptyTable
            \/ /\ DOMAIN students = {inflight[s].resp.body[1].obj.id}
               /\ students[inflight[s].resp.body[1].obj.id] = SlotRow(s)
               /\ inflight[t].order < inflight[s].order

C18_ConcurrentCreateAndDeleteAll == [][CreateVsDeleteAll']_vars

\* both completed, the create answered 201 with id 3, and the delete-all,
\* executed after it, left the table empty: id 3 cannot be retrieved
C18_Witness ==
  /\ ConcCreateDeleteAll("a", "b")
  /\ inflight["a"].pc = "done" /\ inflight["b"].pc = "done"
  /\ inflight["a"].order < inflight["b"].order
  /\ inflight["a"].resp.status = 201 /\ inflight["a"].resp.body[1].obj.id = 3
  /\ students = EmptyTable

====
